---- MODULE Spec2Model ----
(***************************************************************************)
(* Availability and risk engine of the inventory / quoting application.    *)
(*                                                                         *)
(* The persistent state is the hosted database: the tables                 *)
(* inventory_items, inventory_units, inventory_stock and quote_items.      *)
(* The server actions of src/app/page.tsx mutate it, the readers of        *)
(* src/lib/quotes.ts derive an availability breakdown from it, and         *)
(* calculateQuoteRisk folds breakdowns and quote lines into a risk level.  *)
(***************************************************************************)
EXTENDS Integers, Sequences, FiniteSets, Bags

VARIABLES
    inventory_items,   \* table inventory_items: id -> [is_serialized]
    inventory_units,   \* table inventory_units: unit id -> [item_id, status]
    inventory_stock,   \* table inventory_stock: bag of rows
    quote_items,       \* table quote_items: sequence of rows [item_id, quantity]
    returned,          \* value returned by the reader invoked in the last step
    items,             \* calculateQuoteRisk: the quote lines passed in
    availabilities,    \* calculateQuoteRisk: the breakdown lookup passed in
    riskLevel,         \* calculateQuoteRisk / QuoteDetailPage: the risk computed
    pending,           \* server actions between two of their awaits
    inventory_maintenance_logs,  \* table inventory_maintenance_logs: rows
    card,              \* InventoryGroupCard: the component state
    runs               \* QuoteDetailPage: fetchAvailabilities runs in flight

vars == <<inventory_items, inventory_units, inventory_stock, quote_items,
          returned, items, availabilities, riskLevel, pending,
          inventory_maintenance_logs, card, runs>>

dbVars == <<inventory_items, inventory_units, inventory_stock, quote_items>>
riskVars == <<items, availabilities, riskLevel>>
\* The state no server action of the stock, unit and quote tables touches.
restVars == <<inventory_maintenance_logs, card, runs>>

----------------------------------------------------------------------------
(* Bounds of the model.                                                    *)

NumUnits == 3          \* units of the serialized item "s1"
MaxQty == 2            \* largest quantity typed into a stock form
MaxStockRows == 3      \* rows the inventory_stock table can hold
MaxReserved == 2       \* largest quantity of a stored quote line
MaxQuoteRows == 2      \* rows the quote_items table can hold
MaxLines == 3          \* lines of a quote passed to calculateQuoteRisk
MaxRequested == 11     \* largest requested quantity of a single line
MaxAvailable == 12     \* largest available count of a single breakdown
MaxTotal == 6          \* largest total count of a single breakdown
MaxCalls == 2          \* updateStock calls that can be in flight together
MaxNewItems == 1       \* items createItem can add to the table
MaxRuns == 2           \* fetchAvailabilities runs that can be in flight
MaxCardItems == 4      \* entries of the local item list of a card

----------------------------------------------------------------------------
(* Identifiers.  "s1" and "s2" are serialized items, "b1" and "b2" are     *)
(* bulk items, "zz" is an id no row of inventory_items has.                *)

ItemIds == {"s1", "s2", "b1", "b2", "zz"}
\* The item whose stock forms are submitted; "b2" keeps the stock it has.
StockFormIds == {"b1"}
UnitIds == 1..NumUnits

\* Unit["status"] of InventoryGroupCard.tsx and the list validated by
\* updateUnitStatus.
ValidStatuses == {"available", "out", "maintenance"}

\* What a form can carry in the "status" field: the valid ones, the empty
\* string and a value outside the list.
StatusInputs == ValidStatuses \cup {"", "lost"}

\* What a form can carry in the "unit_id" field: the id of a unit, the id
\* of no unit (NumUnits + 1), or nothing (0 stands for the empty string).
UnitIdInputs == 0..(NumUnits + 1)

----------------------------------------------------------------------------
(* JavaScript numbers as they come out of Number(formData.get(...)):       *)
(* an integer or NaN.  A database column holds an integer or NULL.         *)

Num(n) == [k |-> "num", n |-> n]
NaN == [k |-> "nan", n |-> 0]
Null == [k |-> "null", n |-> 0]

isNaN(v) == v.k = "nan"

\* v || 0 for a column value: NULL and 0 are falsy.
OrZero(v) == IF v.k = "num" THEN v.n ELSE 0

\* JSON has no NaN: supabase-js serialises a NaN field as null.
ToColumn(v) == IF v.k = "num" THEN v ELSE Null

FormNumbers == {Num(n) : n \in -1..MaxQty} \cup {NaN}

----------------------------------------------------------------------------
(* Readers of src/lib/quotes.ts.                                           *)

ZeroBreakdown ==
    [available |-> 0, reserved |-> 0, inTransit |-> 0, outOfService |-> 0,
     total |-> 0]

\* quoteItems.reduce((sum, qi) => sum + qi.quantity, 0)
RECURSIVE SumQuantity(_)
SumQuantity(rows) ==
    IF rows = <<>> THEN 0
    ELSE rows[Len(rows)].quantity + SumQuantity(SubSeq(rows, 1, Len(rows) - 1))

\* .from("quote_items").select("quantity").eq("item_id", itemId)
QuoteItemsOf(itemId) == SelectSeq(quote_items, LAMBDA qi : qi.item_id = itemId)

\* The quotes the lines belong to, with their lifecycle status and dates.
QuotesSample ==
    [q \in {"q1", "q2"} |->
        IF q = "q1"
        THEN [status |-> "draft", start_date |-> 1, end_date |-> 2]
        ELSE [status |-> "accepted", start_date |-> 5, end_date |-> 9]]

\* A variant that counts the lines of accepted quotes only.
getReservedQuantityAcceptedOnly(itemId, error) ==
    IF error THEN 0
    ELSE SumQuantity(SelectSeq(QuoteItemsOf(itemId),
             LAMBDA qi : QuotesSample[qi.quote_id].status = "accepted"))

\* A variant whose query has no filter on item_id.
getReservedQuantityAllItems(itemId, error) ==
    IF error THEN 0 ELSE SumQuantity(quote_items)

getReservedQuantity(itemId, error) ==
    IF error THEN 0 ELSE SumQuantity(QuoteItemsOf(itemId))

\* .from("inventory_units").select("status").eq("item_id", itemId)
UnitsOf(itemId) == {u \in UnitIds : inventory_units[u].item_id = itemId}

CountStatus(units, status) ==
    Cardinality({u \in units : inventory_units[u].status = status})

\* .from("inventory_stock") ... .eq("item_id", itemId): the matching rows
StockRowsOf(itemId) == {r \in BagToSet(inventory_stock) : r.item_id = itemId}

StockCountOf(itemId) ==
    LET rows == StockRowsOf(itemId)
    IN  BagCardinality([r \in rows |-> inventory_stock[r]])

\* Outcome of the four fetches of one invocation: TRUE where the backend
\* answers with an error.
FetchOutcomes ==
    [itemError : BOOLEAN, error : BOOLEAN, unitsError : BOOLEAN,
     stockError : BOOLEAN]

NoFailure ==
    [itemError |-> FALSE, error |-> FALSE, unitsError |-> FALSE,
     stockError |-> FALSE]

\* An invocation has an outcome only for the fetches it performs: none
\* after a failed item lookup, and only one of the unit list and the stock
\* record.
PerformedFetches(itemId, out) ==
    LET found == ~out.itemError /\ itemId \in DOMAIN inventory_items
    IN  /\ ~found => ~out.error /\ ~out.unitsError /\ ~out.stockError
        /\ found /\ inventory_items[itemId].is_serialized => ~out.stockError
        /\ found /\ ~inventory_items[itemId].is_serialized => ~out.unitsError

\* The counts of the serialized branch, from the fetched unit list.
SerializedBreakdownSwapped(itemId, reserved) ==
    LET units == UnitsOf(itemId) IN
    [available |-> CountStatus(units, "available"),
     reserved |-> reserved,
     inTransit |-> CountStatus(units, "maintenance"),
     outOfService |-> CountStatus(units, "out"),
     total |-> Cardinality(units)]

SerializedBreakdown(itemId, reserved) ==
    LET units == UnitsOf(itemId) IN
    [available |-> CountStatus(units, "available"),
     reserved |-> reserved,
     inTransit |-> CountStatus(units, "out"),
     outOfService |-> CountStatus(units, "maintenance"),
     total |-> Cardinality(units)]

\* The counts of the bulk branch, from the fetched stock record.
BulkBreakdownIgnoresOutOfService(stock, reserved) ==
    LET total == stock.total_quantity
        outOfService == OrZero(stock.out_of_service_quantity)
        available == total
        inTransit == 0
    IN  [available |-> available,
         reserved |-> reserved,
         inTransit |-> inTransit,
         outOfService |-> outOfService,
         total |-> total]

BulkBreakdown(stock, reserved) ==
    LET total == stock.total_quantity
        outOfService == OrZero(stock.out_of_service_quantity)
        available == total - outOfService
        inTransit == 0
    IN  [available |-> available,
         reserved |-> reserved,
         inTransit |-> inTransit,
         outOfService |-> outOfService,
         total |-> total]

\* A variant that sums the reserved quantity before it looks the item up.
getItemAvailabilityBreakdownReservedFirst(itemId, out) ==
    LET reserved == getReservedQuantity(itemId, out.error) IN
    IF out.itemError \/ itemId \notin DOMAIN inventory_items
    THEN [ZeroBreakdown EXCEPT !.reserved = reserved]
    ELSE IF inventory_items[itemId].is_serialized
    THEN IF out.unitsError
         THEN [ZeroBreakdown EXCEPT !.reserved = reserved]
         ELSE SerializedBreakdown(itemId, reserved)
    ELSE IF out.stockError \/ StockCountOf(itemId) # 1
         THEN [ZeroBreakdown EXCEPT !.reserved = reserved]
         ELSE BulkBreakdown(CHOOSE r \in StockRowsOf(itemId) : TRUE, reserved)

\* A variant that uses the stock row although its fetch reported an error.
getItemAvailabilityBreakdownIgnoresStockError(itemId, out) ==
    IF out.itemError \/ itemId \notin DOMAIN inventory_items
    THEN ZeroBreakdown
    ELSE
    LET reserved == getReservedQuantity(itemId, out.error) IN
    IF inventory_items[itemId].is_serialized
    THEN IF out.unitsError
         THEN [ZeroBreakdown EXCEPT !.reserved = reserved]
         ELSE SerializedBreakdown(itemId, reserved)
    ELSE IF StockCountOf(itemId) # 1
         THEN [ZeroBreakdown EXCEPT !.reserved = reserved]
         ELSE BulkBreakdown(CHOOSE r \in StockRowsOf(itemId) : TRUE, reserved)

getItemAvailabilityBreakdown(itemId, out) ==
    \* .single() on inventory_items: an error when no row has the id
    IF out.itemError \/ itemId \notin DOMAIN inventory_items
    THEN ZeroBreakdown
    ELSE
    LET reserved == getReservedQuantity(itemId, out.error) IN
    IF inventory_items[itemId].is_serialized
    THEN IF out.unitsError
         THEN [ZeroBreakdown EXCEPT !.reserved = reserved]
         ELSE SerializedBreakdown(itemId, reserved)
    \* .single() on inventory_stock: an error unless exactly one row
    ELSE IF out.stockError \/ StockCountOf(itemId) # 1
         THEN [ZeroBreakdown EXCEPT !.reserved = reserved]
         ELSE BulkBreakdown(CHOOSE r \in StockRowsOf(itemId) : TRUE, reserved)

ZeroAvailability == [available |-> 0, total |-> 0]

\* A variant whose bulk branch does not subtract the out-of-service count.
getItemAvailabilityIgnoresOutOfService(itemId, out) ==
    IF out.itemError \/ itemId \notin DOMAIN inventory_items
    THEN ZeroAvailability
    ELSE IF inventory_items[itemId].is_serialized
    THEN IF out.unitsError
         THEN ZeroAvailability
         ELSE LET units == UnitsOf(itemId)
              IN  [available |-> CountStatus(units, "available"),
                   total |-> Cardinality(units)]
    ELSE IF out.stockError \/ StockCountOf(itemId) # 1
         THEN ZeroAvailability
         ELSE LET stock == CHOOSE r \in StockRowsOf(itemId) : TRUE
              IN  [available |-> stock.total_quantity,
                   total |-> stock.total_quantity]

getItemAvailability(itemId, out) ==
    \* .single() on inventory_items: an error when no row has the id
    IF out.itemError \/ itemId \notin DOMAIN inventory_items
    THEN ZeroAvailability
    ELSE IF inventory_items[itemId].is_serialized
    THEN IF out.unitsError
         THEN ZeroAvailability
         ELSE LET units == UnitsOf(itemId)
              IN  [available |-> CountStatus(units, "available"),
                   total |-> Cardinality(units)]
    \* .single() on inventory_stock: an error unless exactly one row
    ELSE IF out.stockError \/ StockCountOf(itemId) # 1
         THEN ZeroAvailability
         ELSE LET stock == CHOOSE r \in StockRowsOf(itemId) : TRUE
              IN  [available |-> stock.total_quantity
                                    - OrZero(stock.out_of_service_quantity),
                   total |-> stock.total_quantity]

----------------------------------------------------------------------------
(* Buffer and risk rules of src/lib/quotes.ts.                             *)

\* Math.ceil(n / d) for d > 0.  For every integer requested quantity below
\* 100000 the double product requestedQuantity * 0.2 (or * 0.1) has the same
\* ceiling as the exact product, so the percentage is kept as an integer.
Ceil(n, d) == (n + d - 1) \div d

calculateBufferQuantityWrongPercent(isSerialized, total, requestedQuantity) ==
    IF isSerialized
    THEN IF total < 5 THEN 1 ELSE 0
    ELSE
    LET bufferPercent == IF requestedQuantity < 10 THEN 40 ELSE 10
        buffer == Ceil(requestedQuantity * bufferPercent, 100)
    IN  buffer

calculateBufferQuantityThresholdIncluded(isSerialized, total, requestedQuantity) ==
    IF isSerialized
    THEN IF total <= 5 THEN 1 ELSE 0
    ELSE
    LET bufferPercent == IF requestedQuantity < 10 THEN 20 ELSE 10
        buffer == Ceil(requestedQuantity * bufferPercent, 100)
    IN  buffer

calculateBufferQuantityFloor(isSerialized, total, requestedQuantity) ==
    IF isSerialized
    THEN IF total < 5 THEN 1 ELSE 0
    ELSE
    LET bufferPercent == IF requestedQuantity < 10 THEN 20 ELSE 10
        buffer == (requestedQuantity * bufferPercent) \div 100
    IN  buffer

calculateBufferQuantityRound(isSerialized, total, requestedQuantity) ==
    IF isSerialized
    THEN IF total < 5 THEN 1 ELSE 0
    ELSE
    LET bufferPercent == IF requestedQuantity < 10 THEN 20 ELSE 10
        buffer == (2 * requestedQuantity * bufferPercent + 100) \div 200
    IN  buffer

calculateBufferQuantity(isSerialized, total, requestedQuantity) ==
    IF isSerialized
    THEN IF total < 5 THEN 1 ELSE 0
    ELSE
    LET bufferPercent == IF requestedQuantity < 10 THEN 20 ELSE 10
        buffer == Ceil(requestedQuantity * bufferPercent, 100)
    IN  buffer

\* item.item_is_serialized || false, the field being optional
IsSerializedOrFalse(item) ==
    IF "item_is_serialized" \in DOMAIN item THEN item.item_is_serialized
    ELSE FALSE

\* availabilities.get(id) is undefined exactly when id is no key of the Map
HasBreakdown(avs, id) == id \in DOMAIN avs

NoFlags == [hasRed |-> FALSE, hasYellow |-> FALSE]

\* One iteration of the for loop of calculateQuoteRisk.
RiskStepOffByOne(flags, item, avs) ==
    IF ~HasBreakdown(avs, item.item_id)
    THEN [flags EXCEPT !.hasRed = TRUE]
    ELSE
    LET breakdown == avs[item.item_id]
        requested == item.quantity
        buffer == calculateBufferQuantity(IsSerializedOrFalse(item),
                                          breakdown.total, requested)
        available == breakdown.available
    IN  IF available <= requested
        THEN [flags EXCEPT !.hasRed = TRUE]
        ELSE IF available < requested + buffer
        THEN [flags EXCEPT !.hasYellow = TRUE]
        ELSE flags

RiskStepMissingSkipped(flags, item, avs) ==
    IF ~HasBreakdown(avs, item.item_id)
    THEN flags
    ELSE
    LET breakdown == avs[item.item_id]
        requested == item.quantity
        buffer == calculateBufferQuantity(IsSerializedOrFalse(item),
                                          breakdown.total, requested)
        available == breakdown.available
    IN  IF available < requested
        THEN [flags EXCEPT !.hasRed = TRUE]
        ELSE IF available < requested + buffer
        THEN [flags EXCEPT !.hasYellow = TRUE]
        ELSE flags

RiskStepIgnoresBuffer(flags, item, avs) ==
    IF ~HasBreakdown(avs, item.item_id)
    THEN [flags EXCEPT !.hasRed = TRUE]
    ELSE
    LET breakdown == avs[item.item_id]
        requested == item.quantity
        available == breakdown.available
    IN  IF available < requested
        THEN [flags EXCEPT !.hasRed = TRUE]
        ELSE IF available < requested
        THEN [flags EXCEPT !.hasYellow = TRUE]
        ELSE flags

RiskStep(flags, item, avs) ==
    IF ~HasBreakdown(avs, item.item_id)
    THEN [flags EXCEPT !.hasRed = TRUE]
    ELSE
    LET breakdown == avs[item.item_id]
        requested == item.quantity
        buffer == calculateBufferQuantity(IsSerializedOrFalse(item),
                                          breakdown.total, requested)
        available == breakdown.available
    IN  IF available < requested
        THEN [flags EXCEPT !.hasRed = TRUE]
        ELSE IF available < requested + buffer
        THEN [flags EXCEPT !.hasYellow = TRUE]
        ELSE flags

\* A loop that stops at the first line that raises a flag.
RiskLoopStopsAtFirstFlag(its, avs, k) ==
    LET flagged == {j \in 1..k : RiskStep(NoFlags, its[j], avs) # NoFlags}
    IN  IF flagged = {} THEN NoFlags
        ELSE LET first == CHOOSE j \in flagged : \A i \in flagged : j <= i
             IN  RiskStep(NoFlags, its[first], avs)

\* The for loop: the flags after the first k lines.
RECURSIVE RiskLoop(_, _, _)
RiskLoop(its, avs, k) ==
    IF k = 0 THEN NoFlags
    ELSE RiskStep(RiskLoop(its, avs, k - 1), its[k], avs)

\* The three return statements that close calculateQuoteRisk.
RiskOfFlagsYellowFirst(flags) ==
    IF flags.hasYellow THEN "yellow"
    ELSE IF flags.hasRed THEN "red"
    ELSE "green"

RiskOfFlags(flags) ==
    IF flags.hasRed THEN "red"
    ELSE IF flags.hasYellow THEN "yellow"
    ELSE "green"

calculateQuoteRisk(its, avs) == RiskOfFlags(RiskLoop(its, avs, Len(its)))

\* useMemo of QuoteDetailPage: the risk shown for quote.items and the
\* itemAvailabilities state.
riskLevelMemo(its, avs) ==
    IF Len(its) = 0 THEN "green" ELSE calculateQuoteRisk(its, avs)

\* itemAvailabilities.get(item.item_id) || { available: 0, ... } of the
\* line render
breakdownOfLine(item, avs) ==
    IF HasBreakdown(avs, item.item_id) THEN avs[item.item_id]
    ELSE ZeroBreakdown

\* A line flagged when the quantity reaches the available count.
isOverAvailableOrEqual(item, avs) ==
    item.quantity >= breakdownOfLine(item, avs).available

\* The "Over available" flag of a line
isOverAvailable(item, avs) ==
    item.quantity > breakdownOfLine(item, avs).available

----------------------------------------------------------------------------
(* Server actions of src/app/page.tsx and the handlers that call them.     *)

\* An updateStock call is idle, or has made its existence check and not
\* yet its write.
Calls == 1..MaxCalls
Idle == [busy |-> FALSE]
NoPending == [c \in Calls |-> Idle]

NoCall == [called |-> FALSE]

\* The write of updateUnitStatus once both form fields are non-empty.
ValidateStatusUnchecked(unitId, newStatus) ==
    IF unitId \in DOMAIN inventory_units
    THEN [inventory_units EXCEPT ![unitId].status = newStatus]
    ELSE inventory_units

ValidateStatusExtraValue(unitId, newStatus) ==
    IF newStatus \notin ValidStatuses \cup {"lost"}
    THEN inventory_units
    ELSE IF unitId \in DOMAIN inventory_units
    THEN [inventory_units EXCEPT ![unitId].status = newStatus]
    ELSE inventory_units

ValidateStatus(unitId, newStatus) ==
    IF newStatus \notin ValidStatuses
    THEN inventory_units
    ELSE IF unitId \in DOMAIN inventory_units
    THEN [inventory_units EXCEPT ![unitId].status = newStatus]
    ELSE inventory_units

updateUnitStatus(unitId, newStatus) ==
    /\ inventory_units' =
           IF unitId = 0 \/ newStatus = ""
           THEN inventory_units
           ELSE ValidateStatus(unitId, newStatus)
    /\ returned' = NoCall
    /\ UNCHANGED <<inventory_items, inventory_stock, quote_items, riskVars, pending, restVars>>

\* InventoryGroupCard: the toggle button of a unit row.  currentStatus is
\* the status the row shows, which can lag behind the table.
handleUnitStatusChange(unitId, currentStatus) ==
    /\ currentStatus \in {"available", "out"}
    /\ LET newStatus == IF currentStatus = "available" THEN "out"
                        ELSE "available"
       IN  updateUnitStatus(unitId, newStatus)

\* Rows of inventory_stock that do not belong to itemId.
OtherStock(itemId) ==
    [r \in BagToSet(inventory_stock) \ StockRowsOf(itemId) |->
        inventory_stock[r]]

StockRow(itemId, total, out) ==
    [item_id |-> itemId, total_quantity |-> total,
     out_of_service_quantity |-> out]

updateStockRejects(totalQuantity, outOfServiceQuantity) ==
    \/ isNaN(totalQuantity)
    \/ isNaN(outOfServiceQuantity)
    \/ totalQuantity.n < 0
    \/ outOfServiceQuantity.n < 0
    \/ outOfServiceQuantity.n > totalQuantity.n

updateStock(itemId, totalQuantity, outOfServiceQuantity) ==
    /\ IF updateStockRejects(totalQuantity, outOfServiceQuantity)
       THEN UNCHANGED inventory_stock
       ELSE
       LET row == StockRow(itemId, totalQuantity.n, outOfServiceQuantity)
           existing == StockCountOf(itemId)
       IN  IF existing > 0
           THEN inventory_stock' =
                    OtherStock(itemId) (+) [r \in {row} |-> existing]
           ELSE /\ BagCardinality(inventory_stock) < MaxStockRows
                /\ inventory_stock' = inventory_stock (+) SetToBag({row})
    /\ returned' = NoCall
    /\ UNCHANGED <<inventory_items, inventory_units, quote_items, riskVars, pending, restVars>>

\* updateStock up to its first await: the validation and the existence
\* check (.limit(1).single() has data exactly when some row matches).
updateStockCheck(c, itemId, totalQuantity, outOfServiceQuantity) ==
    /\ ~pending[c].busy
    /\ IF updateStockRejects(totalQuantity, outOfServiceQuantity)
       THEN UNCHANGED pending
       ELSE pending' =
                [pending EXCEPT ![c] =
                    [busy |-> TRUE, item_id |-> itemId,
                     totalQuantity |-> totalQuantity,
                     outOfServiceQuantity |-> outOfServiceQuantity,
                     existingStock |-> StockCountOf(itemId) > 0]]
    /\ UNCHANGED <<dbVars, returned, riskVars, restVars>>

\* updateStock after the check: the update of every row of the item, or
\* the insert of a new row.
updateStockWrite(c) ==
    /\ pending[c].busy
    /\ LET call == pending[c]
           row == StockRow(call.item_id, call.totalQuantity.n,
                           call.outOfServiceQuantity)
           existing == StockCountOf(call.item_id)
       IN  IF call.existingStock
           THEN inventory_stock' =
                    OtherStock(call.item_id) (+) [r \in {row} |-> existing]
           ELSE /\ BagCardinality(inventory_stock) < MaxStockRows
                /\ inventory_stock' = inventory_stock (+) SetToBag({row})
    /\ pending' = [pending EXCEPT ![c] = Idle]
    /\ returned' = NoCall
    /\ UNCHANGED <<inventory_items, inventory_units, quote_items, riskVars, restVars>>

\* total and out are Number(formData.get(...)); the "|| 0" of out only
\* turns an empty field into 0, which FormNumbers already contains.
createStock(itemId, total, out) ==
    /\ IF itemId = "" \/ isNaN(total)
       THEN UNCHANGED inventory_stock
       ELSE /\ BagCardinality(inventory_stock) < MaxStockRows
            /\ inventory_stock' = inventory_stock (+)
                   SetToBag({StockRow(itemId, total.n, ToColumn(out))})
    /\ returned' = NoCall
    /\ UNCHANGED <<inventory_items, inventory_units, quote_items, riskVars, pending, restVars>>

\* The quote-line server actions QuoteDetailPage receives as props
\* (addQuoteItem, updateQuoteItem, deleteQuoteItem).  A mutation records
\* the item it touched and the change of its quantity.
\* The ids the database gives to the rows createItem inserts.
NewItemIds == {"n1", "n2", "n3"}
NewItemRank == [n1 |-> 1, n2 |-> 2, n3 |-> 3]
CreatedItems(tbl) == DOMAIN tbl \cap NewItemIds
FreshItemId(tbl) ==
    CHOOSE n \in NewItemIds \ DOMAIN tbl :
        \A m \in NewItemIds \ DOMAIN tbl : NewItemRank[n] <= NewItemRank[m]

\* .eq("group_id", groupId): the ids of the rows of a group
GroupItems(tbl, groupId) == {i \in DOMAIN tbl : tbl[i].group_id = groupId}

\* (max?.display_order ?? 0) + 1, max being the row of the group with the
\* largest display_order, if the group has a row.
NextDisplayOrder(tbl, groupId) ==
    LET orders == {tbl[i].display_order : i \in GroupItems(tbl, groupId)}
    IN  IF orders = {} THEN 1
        ELSE (CHOOSE m \in orders : \A o \in orders : o <= m) + 1

InsertItem(tbl, id, groupId, isSerialized, displayOrder) ==
    [i \in DOMAIN tbl \cup {id} |->
        IF i = id
        THEN [is_serialized |-> isSerialized, group_id |-> groupId,
              display_order |-> displayOrder, price |-> 0]
        ELSE tbl[i]]

createItem(name, groupId, isSerialized) ==
    /\ IF name = "" \/ groupId = ""
       THEN UNCHANGED inventory_items
       ELSE /\ Cardinality(CreatedItems(inventory_items)) < MaxNewItems
            /\ inventory_items' =
                   InsertItem(inventory_items, FreshItemId(inventory_items),
                              groupId, isSerialized,
                              NextDisplayOrder(inventory_items, groupId))
    /\ returned' = NoCall
    /\ UNCHANGED <<inventory_units, inventory_stock, quote_items, riskVars,
                   pending, restVars>>

\* The rows the neighbor query of moveItem can return as its first row:
\* operator lt and ascending order for "up", operator gt and descending
\* order for any other direction.
Neighbors(tbl, itemId, direction) ==
    LET current == tbl[itemId]
        rows == IF direction = "up"
                THEN {i \in GroupItems(tbl, current.group_id) :
                         tbl[i].display_order < current.display_order}
                ELSE {i \in GroupItems(tbl, current.group_id) :
                         tbl[i].display_order > current.display_order}
    IN  IF direction = "up"
        THEN {i \in rows : \A j \in rows :
                 tbl[i].display_order <= tbl[j].display_order}
        ELSE {i \in rows : \A j \in rows :
                 tbl[j].display_order <= tbl[i].display_order}

\* .update({ display_order }).eq("id", id)
SetDisplayOrder(tbl, id, displayOrder) ==
    IF id \in DOMAIN tbl
    THEN [tbl EXCEPT ![id].display_order = displayOrder]
    ELSE tbl

moveItem(itemId, direction) ==
    /\ IF itemId \notin DOMAIN inventory_items
          \/ Neighbors(inventory_items, itemId, direction) = {}
       THEN UNCHANGED inventory_items
       ELSE \E neighbor \in Neighbors(inventory_items, itemId, direction) :
              inventory_items' =
                  SetDisplayOrder(
                      SetDisplayOrder(inventory_items, itemId,
                          inventory_items[neighbor].display_order),
                      neighbor, inventory_items[itemId].display_order)
    /\ returned' = NoCall
    /\ UNCHANGED <<inventory_units, inventory_stock, quote_items, riskVars,
                   pending, restVars>>

\* An update that writes the tracking flag along with the name and price.
updateItemWritesFlag(itemId, name, price) ==
    /\ inventory_items' =
           IF name = "" \/ isNaN(price) \/ price.n < 0
              \/ itemId \notin DOMAIN inventory_items
           THEN inventory_items
           ELSE [inventory_items EXCEPT ![itemId].price = price.n,
                                        ![itemId].is_serialized = FALSE]
    /\ returned' = NoCall
    /\ UNCHANGED <<inventory_units, inventory_stock, quote_items, riskVars,
                   pending, restVars>>

updateItem(itemId, name, price) ==
    /\ inventory_items' =
           IF name = "" \/ isNaN(price) \/ price.n < 0
              \/ itemId \notin DOMAIN inventory_items
           THEN inventory_items
           ELSE [inventory_items EXCEPT ![itemId].price = price.n]
    /\ returned' = NoCall
    /\ UNCHANGED <<inventory_units, inventory_stock, quote_items, riskVars,
                   pending, restVars>>

\* One update per entry of itemOrders, each on the row with that id in
\* that group.
RECURSIVE ApplyItemOrders(_, _, _, _)
ApplyItemOrders(tbl, groupId, itemOrders, ids) ==
    IF ids = {} THEN tbl
    ELSE LET id == CHOOSE x \in ids : TRUE
             next == IF id \in GroupItems(tbl, groupId)
                     THEN SetDisplayOrder(tbl, id, itemOrders[id])
                     ELSE tbl
         IN  ApplyItemOrders(next, groupId, itemOrders, ids \ {id})

reorderItems(groupId, itemOrders) ==
    /\ inventory_items' =
           IF groupId = "" THEN inventory_items
           ELSE ApplyItemOrders(inventory_items, groupId, itemOrders,
                                DOMAIN itemOrders)
    /\ returned' = NoCall
    /\ UNCHANGED <<inventory_units, inventory_stock, quote_items, riskVars,
                   pending>>

addMaintenanceLog(itemId, note) ==
    /\ inventory_maintenance_logs' =
           IF note = "" THEN inventory_maintenance_logs
           ELSE inventory_maintenance_logs
                    \cup {[item_id |-> itemId, note |-> note]}
    /\ returned' = NoCall
    /\ UNCHANGED <<dbVars, riskVars, pending, card, runs>>

----------------------------------------------------------------------------
(* Handlers of InventoryGroupCard.  card.items is group.items,             *)
(* card.initialItems the items of the initialGroup prop, card.deleting the *)
(* handleDeleteItem call that awaits deleteItem, with the group its        *)
(* closure holds.                                                          *)

SeqRange(q) == {q[k] : k \in 1..Len(q)}
IndexOf(q, x) == CHOOSE k \in 1..Len(q) : q[k] = x

\* arrayMove of @dnd-kit/sortable: the element at from is taken out and
\* put in at to.
ArrayMove(q, from, to) ==
    LET without == [k \in 1..(Len(q) - 1) |->
                       IF k < from THEN q[k] ELSE q[k + 1]]
    IN  [k \in 1..Len(q) |->
            IF k < to THEN without[k]
            ELSE IF k = to THEN q[from]
            ELSE without[k - 1]]

\* items.filter((item) => item.id !== id)
WithoutItem(q, id) == SelectSeq(q, LAMBDA x : x # id)

handleItemDragEnd(active, over, thrown) ==
    IF active = over \/ active \notin SeqRange(card.items)
          \/ over \notin SeqRange(card.items)
    THEN UNCHANGED vars
    ELSE
    LET newItems == ArrayMove(card.items, IndexOf(card.items, active),
                              IndexOf(card.items, over))
        itemOrders == [i \in SeqRange(newItems) |-> IndexOf(newItems, i) - 1]
    IN  /\ UNCHANGED <<inventory_maintenance_logs, runs>>
        /\ IF thrown
           THEN /\ card' = [card EXCEPT !.items = card.initialItems]
                /\ returned' = NoCall
                /\ UNCHANGED <<dbVars, riskVars, pending>>
           ELSE /\ card' = [card EXCEPT !.items = newItems]
                /\ reorderItems(card.id, itemOrders)

\* A click on an item row, and the effect that copies selectedItem.
selectItem(id) ==
    /\ id \in SeqRange(card.items)
    /\ card' = [card EXCEPT !.localItem = id]
    /\ UNCHANGED <<dbVars, returned, riskVars, pending,
                   inventory_maintenance_logs, runs>>

\* The delete button of the drawer.
openDeleteItemModal ==
    /\ card.localItem # ""
    /\ ~card.showDeleteItemModal
    /\ card' = [card EXCEPT !.showDeleteItemModal = TRUE]
    /\ UNCHANGED <<dbVars, returned, riskVars, pending,
                   inventory_maintenance_logs, runs>>

TempItemIds == {"temp-1"}

\* handleDeleteItem up to its await.
handleDeleteItemStart ==
    /\ card.showDeleteItemModal
    /\ card.localItem # ""
    /\ ~card.deleting.busy
    /\ Len(card.items) < MaxCardItems
    /\ LET itemToDelete == card.localItem IN
       card' =
           IF itemToDelete \in TempItemIds
           THEN [card EXCEPT !.deleteError = "",
                             !.items = WithoutItem(card.items, itemToDelete),
                             !.showDeleteItemModal = FALSE,
                             !.isDeleting = FALSE]
           ELSE [card EXCEPT !.isDeleting = TRUE,
                             !.deleteError = "",
                             !.items = WithoutItem(card.items, itemToDelete),
                             !.showDeleteItemModal = FALSE,
                             !.deleting = [busy |-> TRUE,
                                           group_items |-> card.items,
                                           itemToDelete |-> itemToDelete]]
    /\ UNCHANGED <<dbVars, returned, riskVars, pending,
                   inventory_maintenance_logs, runs>>

DeleteOutcomes == {"success", "error", "throw"}

\* [...group.items, itemToDelete], group being the group of the render
\* that created the handler.
RevertedItems(deleting) == Append(deleting.group_items, deleting.itemToDelete)

\* handleDeleteItem after deleteItem has settled.
handleDeleteItemSettle(outcome) ==
    /\ card.deleting.busy
    /\ card' =
           IF outcome = "success"
           THEN [card EXCEPT !.isDeleting = FALSE,
                             !.deleting = [busy |-> FALSE]]
           ELSE [card EXCEPT
                    !.deleteError = IF outcome = "error" THEN "error"
                                    ELSE "Failed to delete item",
                    !.items = RevertedItems(card.deleting),
                    !.showDeleteItemModal = TRUE,
                    !.isDeleting = FALSE,
                    !.deleting = [busy |-> FALSE]]
    /\ UNCHANGED <<dbVars, returned, riskVars, pending,
                   inventory_maintenance_logs, runs>>

Mutation(itemId, delta) ==
    [called |-> FALSE, item_id |-> itemId, delta |-> delta]

QuoteItemIds == {quote_items[k].id : k \in 1..Len(quote_items)}

FreshQuoteItemId == CHOOSE n \in 1..(Len(quote_items) + 1) : n \notin QuoteItemIds

addQuoteItem(quoteId, itemId, quantity) ==
    /\ Len(quote_items) < MaxQuoteRows
    /\ quote_items' = Append(quote_items,
           [id |-> FreshQuoteItemId, quote_id |-> quoteId,
            item_id |-> itemId, quantity |-> quantity,
            unit_price_snapshot |-> IF itemId \in DOMAIN inventory_items
                                    THEN inventory_items[itemId].price
                                    ELSE 0])
    /\ returned' = Mutation(itemId, quantity)
    /\ UNCHANGED <<inventory_items, inventory_units, inventory_stock, riskVars, pending, restVars>>

updateQuoteItem(quoteItemId, quantity) ==
    /\ \E k \in 1..Len(quote_items) :
           /\ quote_items[k].id = quoteItemId
           /\ quote_items' = [quote_items EXCEPT ![k].quantity = quantity]
           /\ returned' = Mutation(quote_items[k].item_id,
                                   quantity - quote_items[k].quantity)
    /\ UNCHANGED <<inventory_items, inventory_units, inventory_stock, riskVars, pending, restVars>>

deleteQuoteItem(quoteItemId) ==
    /\ \E k \in 1..Len(quote_items) :
           /\ quote_items[k].id = quoteItemId
           /\ quote_items' = SelectSeq(quote_items,
                                       LAMBDA qi : qi.id # quoteItemId)
           /\ returned' = Mutation(quote_items[k].item_id,
                                   0 - quote_items[k].quantity)
    /\ UNCHANGED <<inventory_items, inventory_units, inventory_stock, riskVars, pending, restVars>>

\* A variant that asks for the unit list or the stock record again when
\* the backend answers with an error.
FetchTraceRetriesOnError(itemId, out) ==
    IF out.itemError \/ itemId \notin DOMAIN inventory_items
    THEN <<"inventory_items">>
    ELSE LET table == IF inventory_items[itemId].is_serialized
                      THEN "inventory_units" ELSE "inventory_stock"
         IN  IF out.unitsError \/ out.stockError
             THEN <<"inventory_items", "quote_items", table, table>>
             ELSE <<"inventory_items", "quote_items", table>>

\* The tables one invocation of getItemAvailabilityBreakdown queries, in
\* the order of its awaits.
FetchTrace(itemId, out) ==
    IF out.itemError \/ itemId \notin DOMAIN inventory_items
    THEN <<"inventory_items">>
    ELSE IF inventory_items[itemId].is_serialized
    THEN <<"inventory_items", "quote_items", "inventory_units">>
    ELSE <<"inventory_items", "quote_items", "inventory_stock">>

\* getQuoteWithItems: the lines of a quote with the joined item data.
getQuoteWithItems(quoteId) ==
    LET quoteItems == SelectSeq(quote_items, LAMBDA qi : qi.quote_id = quoteId)
    IN  [k \in 1..Len(quoteItems) |->
            [id |-> quoteItems[k].id,
             item_id |-> quoteItems[k].item_id,
             quantity |-> quoteItems[k].quantity,
             unit_price_snapshot |-> quoteItems[k].unit_price_snapshot,
             item_price |->
                 IF quoteItems[k].item_id \in DOMAIN inventory_items
                 THEN Num(inventory_items[quoteItems[k].item_id].price)
                 ELSE Null]]

\* Dates are day numbers, so the ceiling of the difference is the
\* difference.
numberOfDays(quoteId) ==
    QuotesSample[quoteId].end_date - QuotesSample[quoteId].start_date

\* A line total taken from the price the item has now.
lineTotalFromItemPrice(item, days) ==
    item.quantity * OrZero(item.item_price) * days

lineTotal(item, days) == item.quantity * item.unit_price_snapshot * days

\* quote.items.reduce(...) over the first k lines.
RECURSIVE subtotal(_, _, _)
subtotal(its, days, k) ==
    IF k = 0 THEN 0
    ELSE subtotal(its, days, k - 1) + lineTotal(its[k], days)

\* A render of QuoteDetailPage for a quote just read from the store.
RenderQuote(quoteId) ==
    /\ returned' =
           LET its == getQuoteWithItems(quoteId)
               days == numberOfDays(quoteId)
           IN  [called |-> TRUE, quote_id |-> quoteId,
                lineTotals |-> [k \in 1..Len(its) |-> lineTotal(its[k], days)],
                subtotal |-> subtotal(its, days, Len(its))]
    /\ UNCHANGED <<dbVars, riskVars, pending, restVars>>

\* One invocation of the reader with the given fetch outcomes.
GetItemAvailabilityBreakdown(itemId, out) ==
    /\ PerformedFetches(itemId, out)
    /\ returned' = [called |-> TRUE, item_id |-> itemId, out |-> out,
                    fetches |-> FetchTrace(itemId, out),
                    result |-> getItemAvailabilityBreakdown(itemId, out)]
    /\ UNCHANGED <<dbVars, riskVars, pending, restVars>>

\* One invocation of getItemAvailability; it makes no reserved lookup.
GetItemAvailability(itemId, out) ==
    /\ PerformedFetches(itemId, out)
    /\ ~out.error
    /\ returned' = [called |-> TRUE, reader |-> "getItemAvailability",
                    item_id |-> itemId, out |-> out,
                    result |-> getItemAvailability(itemId, out)]
    /\ UNCHANGED <<dbVars, riskVars, pending, restVars>>

----------------------------------------------------------------------------
(* Initial states.                                                         *)

\* Group "g1" holds s1, s2 and b1 in this order, group "g2" holds b2.
SampleOrder == [s1 |-> 1, s2 |-> 2, b1 |-> 3, b2 |-> 1]

ItemsSample ==
    [i \in {"s1", "s2", "b1", "b2"} |->
        [is_serialized |-> i \in {"s1", "s2"},
         group_id |-> IF i = "b2" THEN "g2" ELSE "g1",
         display_order |-> SampleOrder[i], price |-> 1]]

\* The card of group "g1" shows its items in display order; nothing is
\* selected and no dialog is open.
CardSample ==
    [id |-> "g1", initialItems |-> <<"s1", "s2", "b1">>,
     items |-> <<"s1", "s2", "b1">>, localItem |-> "",
     showDeleteItemModal |-> FALSE, deleteError |-> "", isDeleting |-> FALSE,
     deleting |-> [busy |-> FALSE]]

InitRest ==
    /\ inventory_maintenance_logs = {}
    /\ card = CardSample
    /\ runs = <<>>

\* Quote lines already stored: every id, "zz" included, is referenced.
QuoteItemsSample ==
    << [id |-> 1, quote_id |-> "q1", item_id |-> "s1", quantity |-> 1,
         unit_price_snapshot |-> 1],
       [id |-> 2, quote_id |-> "q1", item_id |-> "b1", quantity |-> MaxReserved,
         unit_price_snapshot |-> 1],
       [id |-> 3, quote_id |-> "q2", item_id |-> "zz", quantity |-> 1,
         unit_price_snapshot |-> 1],
       [id |-> 4, quote_id |-> "q2", item_id |-> "s1", quantity |-> MaxReserved,
         unit_price_snapshot |-> 1],
       [id |-> 5, quote_id |-> "q2", item_id |-> "b2", quantity |-> 1,
         unit_price_snapshot |-> 1] >>

\* Every unit belongs to "s1" and is available; "s2" has no unit.
UnitsSample == [u \in UnitIds |-> [item_id |-> "s1", status |-> "available"]]

NoAvailabilities == [i \in {} |-> ZeroBreakdown]

InitRiskIdle ==
    /\ items = <<>>
    /\ availabilities = NoAvailabilities
    /\ riskLevel = "none"

InitUnits ==
    /\ inventory_items = ItemsSample
    /\ inventory_units = UnitsSample
    /\ inventory_stock = EmptyBag
    /\ quote_items = QuoteItemsSample
    /\ returned = NoCall
    /\ pending = NoPending
    /\ InitRest
    /\ InitRiskIdle

\* "b2" is stocked already, "b1" has no stock record yet.
StockSample == SetToBag({StockRow("b2", MaxQty, Num(1))})

InitStock ==
    /\ inventory_items = ItemsSample
    /\ inventory_units = UnitsSample
    /\ inventory_stock = StockSample
    /\ quote_items = QuoteItemsSample
    /\ returned = NoCall
    /\ pending = NoPending
    /\ InitRest
    /\ InitRiskIdle

----------------------------------------------------------------------------
(* The unit table under updateUnitStatus and the toggle.                   *)

NextUnits ==
    \/ \E u \in UnitIdInputs, s \in StatusInputs : updateUnitStatus(u, s)
    \/ \E u \in UnitIds, s \in ValidStatuses : handleUnitStatusChange(u, s)
    \/ \E i \in ItemIds, o \in FetchOutcomes : GetItemAvailabilityBreakdown(i, o)

SpecUnits == InitUnits /\ [][NextUnits]_vars

(* The quote_items table under the quote-line actions.                     *)

InitQuotes ==
    /\ inventory_items = ItemsSample
    /\ inventory_units = UnitsSample
    /\ inventory_stock = EmptyBag
    /\ quote_items = <<>>
    /\ returned = NoCall
    /\ pending = NoPending
    /\ InitRest
    /\ InitRiskIdle

\* The items quote lines are added for: a serialized item and an id no
\* row of inventory_items has.
QuoteLineItemIds == {"s1", "zz"}

NextQuotes ==
    \/ \E q \in DOMAIN QuotesSample, i \in QuoteLineItemIds,
          n \in 1..MaxReserved :
           addQuoteItem(q, i, n)
    \/ \E id \in 1..MaxQuoteRows, n \in 1..MaxReserved : updateQuoteItem(id, n)
    \/ \E id \in 1..MaxQuoteRows : deleteQuoteItem(id)
    \/ \E i \in QuoteLineItemIds, o \in FetchOutcomes :
           GetItemAvailabilityBreakdown(i, o)

SpecQuotes == InitQuotes /\ [][NextQuotes]_vars

(* The reader of one item while the data of the other items changes.      *)

\* Units 1, 3, ... belong to "s1", units 2, 4, ... to "s2".
UnitsMixed ==
    [u \in UnitIds |->
        [item_id |-> IF u % 2 = 1 THEN "s1" ELSE "s2", status |-> "available"]]

InitStore ==
    /\ inventory_items = ItemsSample
    /\ inventory_units = UnitsMixed
    /\ inventory_stock = EmptyBag
    /\ quote_items = <<>>
    /\ returned = NoCall
    /\ pending = NoPending
    /\ InitRest
    /\ InitRiskIdle

NextStore ==
    \/ \E u \in UnitIds, st \in {"available", "out"} : updateUnitStatus(u, st)
    \/ \E i \in {"b1", "b2"}, t \in {Num(1), Num(MaxQty)} :
           updateStock(i, t, Num(0))
    \/ \E i \in {"s2", "b2"} : addQuoteItem("q1", i, 1)
    \/ \E i \in ItemIds : GetItemAvailabilityBreakdown(i, NoFailure)

SpecStore == InitStore /\ [][NextStore]_vars

(* Quote lines and item prices.                                            *)

InitPrices ==
    /\ inventory_items = ItemsSample
    /\ inventory_units = UnitsSample
    /\ inventory_stock = EmptyBag
    /\ quote_items = <<>>
    /\ returned = NoCall
    /\ pending = NoPending
    /\ InitRest
    /\ InitRiskIdle

NextPrices ==
    \/ \E q \in DOMAIN QuotesSample, i \in {"s1", "b1"}, n \in 1..MaxReserved :
           addQuoteItem(q, i, n)
    \/ \E id \in 1..MaxQuoteRows, n \in 1..MaxReserved : updateQuoteItem(id, n)
    \/ \E price \in {Num(-1), Num(1), Num(2)} : updateItem("s1", "tent", price)
    \/ \E q \in DOMAIN QuotesSample : RenderQuote(q)

SpecPrices == InitPrices /\ [][NextPrices]_vars

(* The availability effect of QuoteDetailPage over a fixed store.          *)

PageItemIds == {"s1", "b2", "zz"}

\* quote.items as the page holds them.
PageLines ==
    {[item_id |-> i, quantity |-> 1, item_is_serialized |-> i = "s1"] :
        i \in PageItemIds}

\* What one await of getItemAvailabilityBreakdown does inside the try
\* block: it throws, or it returns under some outcome of its fetches.
PageOutcomes == [thrown : BOOLEAN, out : FetchOutcomes]

PagePerformed(itemId, o) ==
    IF o.thrown THEN o.out = NoFailure ELSE PerformedFetches(itemId, o.out)

\* availMap.set(key, value)
MapSet(m, key, value) ==
    [x \in DOMAIN m \cup {key} |-> IF x = key THEN value ELSE m[x]]

\* A loop inside one try block: the first throw ends it.
FetchLoopAbortsOnThrow(its, outs, k) ==
    LET thrown == {j \in 1..k : outs[j].thrown}
        last == IF thrown = {} THEN k
                ELSE (CHOOSE j \in thrown : \A i \in thrown : j <= i) - 1
        ids == {its[j].item_id : j \in 1..last}
    IN  [x \in ids |->
            LET at == CHOOSE j \in 1..last :
                         /\ its[j].item_id = x
                         /\ \A i \in 1..last : its[i].item_id = x => i <= j
            IN  getItemAvailabilityBreakdown(x, outs[at].out)]

\* The for loop of fetchAvailabilities: availMap after the first k items.
RECURSIVE FetchLoop(_, _, _)
FetchLoop(its, outs, k) ==
    IF k = 0 THEN NoAvailabilities
    ELSE LET availMap == FetchLoop(its, outs, k - 1)
             itemId == its[k].item_id
         IN  IF outs[k].thrown THEN availMap
             ELSE MapSet(availMap, itemId,
                         getItemAvailabilityBreakdown(itemId, outs[k].out))

\* The effect on quote.items; it runs once for a given item list.
fetchAvailabilities(outs) ==
    /\ ~returned.called
    /\ \A k \in 1..Len(items) : PagePerformed(items[k].item_id, outs[k])
    /\ availabilities' =
           IF Len(items) > 0 THEN FetchLoop(items, outs, Len(items))
           ELSE NoAvailabilities
    /\ returned' = [called |-> TRUE, outs |-> outs]
    /\ UNCHANGED <<dbVars, items, riskLevel, pending, restVars>>

InitPage ==
    /\ inventory_items = ItemsSample
    /\ inventory_units = UnitsSample
    /\ inventory_stock = StockSample
    /\ quote_items = QuoteItemsSample
    /\ returned = NoCall
    /\ pending = NoPending
    /\ InitRest
    /\ riskLevel = "none"
    /\ \E n \in 0..MaxLines : items \in [1..n -> PageLines]
    /\ availabilities = NoAvailabilities

\* The outcome lists of one run of the loop over the first k items.
RECURSIVE OutcomeLists(_, _)
OutcomeLists(its, k) ==
    IF k = 0 THEN {<<>>}
    ELSE {Append(outs, o) :
            outs \in OutcomeLists(its, k - 1),
            o \in {x \in PageOutcomes : PagePerformed(its[k].item_id, x)}}

NextPage ==
    \E outs \in OutcomeLists(items, Len(items)) : fetchAvailabilities(outs)

SpecPage == InitPage /\ [][NextPage]_vars

(* The availability effect of QuoteDetailPage while quote.items changes:   *)
(* a run is started for every new non-empty item list and sets the map    *)
(* when its last await has returned.  No fetch fails here.                 *)

\* The item lists the quote goes through: up to two lines over two items.
RunLines == {l \in PageLines : l.item_id \in {"s1", "b2"}}
RunLists == {<<>>} \cup {<<l>> : l \in RunLines}
                \cup {<<l, m>> : l \in RunLines, m \in RunLines}

AllOk(its) == [k \in 1..Len(its) |-> [thrown |-> FALSE, out |-> NoFailure]]

RemoveAt(q, k) == SubSeq(q, 1, k - 1) \o SubSeq(q, k + 1, Len(q))

\* setQuote(initialQuote) after a refresh, and the effect on quote.items up
\* to the first await of the run it starts.
setQuote(newItems) ==
    /\ newItems # items
    /\ items' = newItems
    /\ IF Len(newItems) > 0
       THEN /\ Len(runs) < MaxRuns
            /\ runs' = Append(runs, [items |-> newItems])
            /\ UNCHANGED availabilities
       ELSE /\ availabilities' = NoAvailabilities
            /\ UNCHANGED runs
    /\ returned' = NoCall
    /\ UNCHANGED <<dbVars, riskLevel, pending, inventory_maintenance_logs,
                   card>>

\* The end of the k-th run in flight: setItemAvailabilities(availMap).
fetchAvailabilitiesEnd(k) ==
    /\ k \in 1..Len(runs)
    /\ availabilities' =
           FetchLoop(runs[k].items, AllOk(runs[k].items), Len(runs[k].items))
    /\ runs' = RemoveAt(runs, k)
    /\ returned' = NoCall
    /\ UNCHANGED <<dbVars, items, riskLevel, pending,
                   inventory_maintenance_logs, card>>

InitRuns ==
    /\ inventory_items = ItemsSample
    /\ inventory_units = UnitsSample
    /\ inventory_stock = StockSample
    /\ quote_items = QuoteItemsSample
    /\ returned = NoCall
    /\ pending = NoPending
    /\ InitRest
    /\ InitRiskIdle

NextRuns ==
    \/ \E l \in RunLists : setQuote(l)
    \/ \E k \in 1..MaxRuns : fetchAvailabilitiesEnd(k)

SpecRuns == InitRuns /\ [][NextRuns]_vars

(* One InventoryGroupCard: selecting an item, deleting it, dragging.       *)

InitCard ==
    /\ inventory_items = ItemsSample
    /\ inventory_units = UnitsSample
    /\ inventory_stock = StockSample
    /\ quote_items = QuoteItemsSample
    /\ returned = NoCall
    /\ pending = NoPending
    /\ InitRest
    /\ InitRiskIdle

NextCard ==
    \/ \E i \in SeqRange(card.items) : selectItem(i)
    \/ openDeleteItemModal
    \/ handleDeleteItemStart
    \/ \E o \in DeleteOutcomes : handleDeleteItemSettle(o)
    \/ \E a \in SeqRange(card.items), o \in SeqRange(card.items) :
          handleItemDragEnd(a, o, FALSE)

SpecCard == InitCard /\ [][NextCard]_vars

(* createItem, moveItem and reorderItems await each of their queries: the   *)
(* steps of the calls interleave at those awaits.  MaxCalls calls are      *)
(* made in a behaviour: a slot of pending is used by one call.             *)

Ended == [busy |-> FALSE, ended |-> TRUE]

\* A new call takes the first unused slot.
Free(c) == pending[c] = Idle /\ \A d \in Calls : d < c => pending[d] # Idle

Op(c, op, step) ==
    pending[c].busy /\ pending[c].op = op /\ pending[c].step = step

CreatesRunning == {c \in Calls : pending[c].busy /\ pending[c].op = "createItem"}

restRace == <<inventory_units, inventory_stock, quote_items, riskVars,
              restVars>>

\* createItem up to the answer of the query for the largest display_order
createItemMax(c, name, groupId, isSerialized) ==
    /\ Free(c)
    /\ IF name = "" \/ groupId = ""
       THEN pending' = [pending EXCEPT ![c] = Ended]
       ELSE /\ Cardinality(CreatedItems(inventory_items))
                 + Cardinality(CreatesRunning) < Cardinality(NewItemIds)
            /\ pending' =
                   [pending EXCEPT ![c] =
                       [busy |-> TRUE, op |-> "createItem", step |-> "insert",
                        group_id |-> groupId, is_serialized |-> isSerialized,
                        display_order |->
                            NextDisplayOrder(inventory_items, groupId)]]
    /\ returned' = NoCall
    /\ UNCHANGED <<inventory_items, restRace>>

\* createItem: the insert with the display_order computed before
createItemInsert(c) ==
    /\ Op(c, "createItem", "insert")
    /\ inventory_items' =
           InsertItem(inventory_items, FreshItemId(inventory_items),
                      pending[c].group_id, pending[c].is_serialized,
                      pending[c].display_order)
    /\ pending' = [pending EXCEPT ![c] = Ended]
    /\ returned' = NoCall
    /\ UNCHANGED restRace

\* moveItem: the query for the current row
moveItemCurrent(c, itemId, direction) ==
    /\ Free(c)
    /\ IF itemId \notin DOMAIN inventory_items
       THEN pending' = [pending EXCEPT ![c] = Ended]
       ELSE pending' =
                [pending EXCEPT ![c] =
                    [busy |-> TRUE, op |-> "moveItem", step |-> "neighbor",
                     direction |-> direction, id |-> itemId,
                     group_id |-> inventory_items[itemId].group_id,
                     display_order |->
                         inventory_items[itemId].display_order]]
    /\ returned' = NoCall
    /\ UNCHANGED <<inventory_items, restRace>>

\* The first row of the neighbor query, asked with the group and the
\* display_order read before.
NeighborsOf(tbl, current, direction) ==
    LET rows == IF direction = "up"
                THEN {i \in GroupItems(tbl, current.group_id) :
                         tbl[i].display_order < current.display_order}
                ELSE {i \in GroupItems(tbl, current.group_id) :
                         tbl[i].display_order > current.display_order}
    IN  IF direction = "up"
        THEN {i \in rows : \A j \in rows :
                 tbl[i].display_order <= tbl[j].display_order}
        ELSE {i \in rows : \A j \in rows :
                 tbl[j].display_order <= tbl[i].display_order}

\* moveItem: the query for the neighbor
moveItemNeighbor(c) ==
    /\ Op(c, "moveItem", "neighbor")
    /\ LET found == NeighborsOf(inventory_items, pending[c],
                                pending[c].direction)
       IN  IF found = {}
           THEN pending' = [pending EXCEPT ![c] = Ended]
           ELSE \E n \in found :
                  pending' =
                      [pending EXCEPT ![c] =
                          [busy |-> TRUE, op |-> "moveItem",
                           step |-> "current", id |-> pending[c].id,
                           display_order |-> pending[c].display_order,
                           neighbor |->
                               [id |-> n,
                                display_order |->
                                    inventory_items[n].display_order]]]
    /\ returned' = NoCall
    /\ UNCHANGED <<inventory_items, restRace>>

\* moveItem: the update of the current row
moveItemUpdateCurrent(c) ==
    /\ Op(c, "moveItem", "current")
    /\ inventory_items' =
           SetDisplayOrder(inventory_items, pending[c].id,
                           pending[c].neighbor.display_order)
    /\ pending' = [pending EXCEPT ![c].step = "other"]
    /\ returned' = NoCall
    /\ UNCHANGED restRace

\* moveItem: the update of the neighbor row
moveItemUpdateNeighbor(c) ==
    /\ Op(c, "moveItem", "other")
    /\ inventory_items' =
           SetDisplayOrder(inventory_items, pending[c].neighbor.id,
                           pending[c].display_order)
    /\ pending' = [pending EXCEPT ![c] = Ended]
    /\ returned' = NoCall
    /\ UNCHANGED restRace

\* reorderItems: every update is sent before any is awaited
reorderItemsSend(c, groupId, itemOrders) ==
    /\ Free(c)
    /\ IF groupId = "" \/ DOMAIN itemOrders = {}
       THEN pending' = [pending EXCEPT ![c] = Ended]
       ELSE pending' =
                [pending EXCEPT ![c] =
                    [busy |-> TRUE, op |-> "reorderItems",
                     step |-> "updates", group_id |-> groupId,
                     itemOrders |-> itemOrders,
                     sent |-> DOMAIN itemOrders]]
    /\ returned' = NoCall
    /\ UNCHANGED <<inventory_items, restRace>>

\* reorderItems: the store performs one of the updates sent
reorderItemsUpdate(c, itemId) ==
    /\ Op(c, "reorderItems", "updates")
    /\ itemId \in pending[c].sent
    /\ inventory_items' =
           IF itemId \in GroupItems(inventory_items, pending[c].group_id)
           THEN SetDisplayOrder(inventory_items, itemId,
                                pending[c].itemOrders[itemId])
           ELSE inventory_items
    /\ pending' =
           IF pending[c].sent = {itemId}
           THEN [pending EXCEPT ![c] = Ended]
           ELSE [pending EXCEPT ![c].sent = @ \ {itemId}]
    /\ returned' = NoCall
    /\ UNCHANGED restRace

\* The orders the card sends for a list of items: the index in the list
ItemOrdersOf(list) == [id \in SeqRange(list) |-> IndexOf(list, id) - 1]

\* An item of the card dragged to the top
RaceOrders ==
    {ItemOrdersOf(ArrayMove(CardSample.items, from, 1)) :
        from \in 2..Len(CardSample.items)}

InitItemsRace ==
    /\ inventory_items = ItemsSample
    /\ inventory_units = UnitsSample
    /\ inventory_stock = StockSample
    /\ quote_items = QuoteItemsSample
    /\ returned = NoCall
    /\ pending = NoPending
    /\ InitRest
    /\ InitRiskIdle

NextItemsRace ==
    \/ \E c \in Calls, name \in {"", "tent"} :
          createItemMax(c, name, "g2", FALSE)
    \/ \E c \in Calls : createItemInsert(c)
    \/ \E c \in Calls, i \in {"s1", "s2", "zz"}, d \in {"up", "down"} :
          moveItemCurrent(c, i, d)
    \/ \E c \in Calls : moveItemNeighbor(c)
    \/ \E c \in Calls : moveItemUpdateCurrent(c)
    \/ \E c \in Calls : moveItemUpdateNeighbor(c)
    \/ \E c \in Calls, g \in {"", "g1"}, o \in RaceOrders :
          reorderItemsSend(c, g, o)
    \/ \E c \in Calls, i \in DOMAIN inventory_items :
          reorderItemsUpdate(c, i)

SpecItemsRace == InitItemsRace /\ [][NextItemsRace]_vars

(* calculateBufferQuantity applied to arguments drawn from bounded sets:   *)
(* a total can be negative (createStock stores what it is given), a        *)
(* requested quantity is the quantity of a quote line.                     *)

InitBuffer ==
    /\ inventory_items = ItemsSample
    /\ inventory_units = UnitsSample
    /\ inventory_stock = EmptyBag
    /\ quote_items = QuoteItemsSample
    /\ returned = NoCall
    /\ pending = NoPending
    /\ InitRest
    /\ InitRiskIdle

CalculateBufferQuantity(isSerialized, total, requestedQuantity) ==
    /\ returned' =
           [called |-> TRUE, isSerialized |-> isSerialized, total |-> total,
            requestedQuantity |-> requestedQuantity,
            buffer |-> calculateBufferQuantity(isSerialized, total,
                                               requestedQuantity)]
    /\ UNCHANGED <<dbVars, riskVars, pending, restVars>>

NextBuffer ==
    \E s \in BOOLEAN, t \in -1..MaxTotal, r \in 0..MaxRequested :
        CalculateBufferQuantity(s, t, r)

SpecBuffer == InitBuffer /\ [][NextBuffer]_vars

(* The item table under the server actions of the inventory page, called   *)
(* one at a time.                                                          *)

InitItems ==
    /\ inventory_items = ItemsSample
    /\ inventory_units = UnitsSample
    /\ inventory_stock = StockSample
    /\ quote_items = QuoteItemsSample
    /\ returned = NoCall
    /\ pending = NoPending
    /\ InitRest
    /\ InitRiskIdle

NextItems ==
    \/ \E name \in {"", "tent"}, g \in {"", "g2"}, f \in BOOLEAN :
           createItem(name, g, f)
    \/ \E i \in DOMAIN inventory_items \cup {"zz"}, d \in {"up", "down"} :
           moveItem(i, d)
    \/ \E name \in {"", "tent"}, price \in {Num(-1), Num(2), NaN} :
           updateItem("s1", name, price)
    \/ \E a \in SeqRange(card.items), o \in SeqRange(card.items),
          thrown \in BOOLEAN :
           handleItemDragEnd(a, o, thrown)
    \/ updateStock("b2", Num(1), Num(0))
    \/ createStock("b1", Num(1), Num(0))
    \/ updateUnitStatus(1, "maintenance")
    \/ \E note \in {"", "checked"} : addMaintenanceLog("s1", note)

SpecItems == InitItems /\ [][NextItems]_vars

(* The stock table under updateStock calls whose check and write            *)
(* interleave; no item has a stock record at the start.                    *)

RaceTotals == {Num(1), Num(MaxQty)}
RaceOuts == {Num(0), Num(MaxQty)}

InitStockRace ==
    /\ inventory_items = ItemsSample
    /\ inventory_units = UnitsSample
    /\ inventory_stock = EmptyBag
    /\ quote_items = QuoteItemsSample
    /\ returned = NoCall
    /\ pending = NoPending
    /\ InitRest
    /\ InitRiskIdle

NextStockRace ==
    \/ \E c \in Calls, i \in StockFormIds, t \in RaceTotals, o \in RaceOuts :
           updateStockCheck(c, i, t, o)
    \/ \E c \in Calls : updateStockWrite(c)

SpecStockRace == InitStockRace /\ [][NextStockRace]_vars

(* The two availability readers over a store that changes.                *)

AvailNumbers == {Num(1), Num(MaxQty)}

NextAvail ==
    \/ \E t \in AvailNumbers, o \in {Num(0), Num(1)} : updateStock("b1", t, o)
    \/ \E t \in AvailNumbers : createStock("b1", t, Num(1))
    \/ \E u \in UnitIds, st \in ValidStatuses : updateUnitStatus(u, st)
    \/ \E i \in ItemIds, o \in FetchOutcomes : GetItemAvailability(i, o)
    \/ \E i \in ItemIds, o \in FetchOutcomes :
           GetItemAvailabilityBreakdown(i, o)

SpecAvail == InitStock /\ [][NextAvail]_vars

(* The stock table under updateStock and createStock.                      *)

NextStock ==
    \/ \E i \in StockFormIds, t \in FormNumbers, o \in FormNumbers :
           updateStock(i, t, o)
    \/ \E i \in StockFormIds \cup {""}, t \in FormNumbers, o \in FormNumbers :
           createStock(i, t, o)
    \/ \E i \in ItemIds, o \in FetchOutcomes : GetItemAvailabilityBreakdown(i, o)

SpecStock == InitStock /\ [][NextStock]_vars

----------------------------------------------------------------------------
(* calculateQuoteRisk and the risk shown by QuoteDetailPage, applied to    *)
(* arguments drawn from bounded sets.                                      *)

\* A quote line as calculateQuoteRisk receives it; item_is_serialized is
\* optional.
Lines(ids, quantities, flags) ==
    [item_id : ids, quantity : quantities]
        \cup [item_id : ids, quantity : quantities, item_is_serialized : flags]

Breakdowns(availables, totals) ==
    [available : availables, reserved : {0}, inTransit : {0},
     outOfService : {0}, total : totals]

\* One line over a wide range of quantities and counts.
InitRiskSingle ==
    /\ items \in {<<l>> : l \in Lines({"b1"}, 0..MaxRequested, BOOLEAN)}
    /\ availabilities \in
           [{"b1"} -> Breakdowns(0..MaxAvailable, 0..MaxTotal)]

\* Up to MaxLines lines over two items, each of which has a breakdown that
\* makes the line red, yellow or green, or has none.
InitRiskList ==
    /\ \E n \in 0..MaxLines :
           items \in [1..n -> Lines({"s1", "b1"}, 2..3, {TRUE})]
    /\ \E present \in SUBSET {"s1", "b1"} :
           availabilities \in [present -> Breakdowns(2..3, {4})]

InitRisk ==
    /\ inventory_items = ItemsSample
    /\ inventory_units = UnitsSample
    /\ inventory_stock = StockSample
    /\ quote_items = QuoteItemsSample
    /\ returned = NoCall
    /\ pending = NoPending
    /\ InitRest
    /\ riskLevel = "none"
    /\ InitRiskSingle \/ InitRiskList

CalculateQuoteRisk ==
    /\ returned' = [called |-> TRUE,
                    risk |-> calculateQuoteRisk(items, availabilities)]
    /\ UNCHANGED <<dbVars, riskVars, pending, restVars>>

\* A render of QuoteDetailPage.
RenderRiskLevel ==
    /\ riskLevel' = riskLevelMemo(items, availabilities)
    /\ UNCHANGED <<dbVars, returned, items, availabilities, pending, restVars>>

NextRisk ==
    \/ CalculateQuoteRisk
    \/ RenderRiskLevel

SpecRisk == InitRisk /\ [][NextRisk]_vars

----------------------------------------------------------------------------
(* Properties of the risk classification (checked under SpecRisk).         *)

\* The level a single line contributes, as the rules state it.
Classify(available, r, b) ==
    IF available < r THEN "red"
    ELSE IF available < r + b THEN "yellow"
    ELSE "green"

LineClass(line, avs) ==
    IF ~HasBreakdown(avs, line.item_id) THEN "red"
    ELSE LET bd == avs[line.item_id]
             mode == IF "item_is_serialized" \in DOMAIN line
                     THEN line.item_is_serialized ELSE FALSE
         IN  Classify(bd.available, line.quantity,
                      calculateBufferQuantity(mode, bd.total, line.quantity))

Rank(level) == CASE level = "green" -> 0 [] level = "yellow" -> 1
                 [] level = "red" -> 2

LinePermutations(n) ==
    {p \in [1..n -> 1..n] : \A a, b \in 1..n : p[a] = p[b] => a = b}

\* C1: a quote with a single line whose breakdown is present gets the
\* classification of that line: red if available < r, otherwise yellow if
\* available < r + b, otherwise green, with b the buffer of the line.
C1_SingleLineRisk ==
    (returned.called /\ Len(items) = 1
        /\ HasBreakdown(availabilities, items[1].item_id))
    => LET bd == availabilities[items[1].item_id]
           r == items[1].quantity
           b == calculateBufferQuantity(IsSerializedOrFalse(items[1]),
                                        bd.total, r)
       IN  returned.risk = Classify(bd.available, r, b)

\* A single bulk line that asks for exactly what is available is yellow.
C1_Witness ==
    /\ returned.called
    /\ Len(items) = 1
    /\ HasBreakdown(availabilities, items[1].item_id)
    /\ ~IsSerializedOrFalse(items[1])
    /\ items[1].quantity = 5
    /\ availabilities[items[1].item_id].available = 5
    /\ returned.risk = "yellow"

\* C2: the quote risk is red if some line classifies red, otherwise yellow
\* if some line classifies yellow, otherwise green; an empty line list is
\* green, for calculateQuoteRisk and for the risk QuoteDetailPage shows.
C2_Aggregation ==
    /\ returned.called =>
         returned.risk =
           IF \E k \in 1..Len(items) : LineClass(items[k], availabilities) = "red"
           THEN "red"
           ELSE IF \E k \in 1..Len(items) :
                      LineClass(items[k], availabilities) = "yellow"
           THEN "yellow"
           ELSE "green"
    /\ (returned.called /\ items = <<>>) => returned.risk = "green"
    /\ (riskLevel # "none" /\ items = <<>>) => riskLevel = "green"

\* A yellow line comes before a red one and the quote is red.
C2_Witness ==
    /\ returned.called
    /\ Len(items) >= 2
    /\ LineClass(items[1], availabilities) = "yellow"
    /\ LineClass(items[2], availabilities) = "red"
    /\ HasBreakdown(availabilities, items[2].item_id)
    /\ returned.risk = "red"

\* C3: a line whose item has no breakdown in the lookup makes the quote
\* red, whatever the other lines are.
C3_MissingBreakdownIsRed ==
    (returned.called
        /\ \E k \in 1..Len(items) :
               ~HasBreakdown(availabilities, items[k].item_id))
    => returned.risk = "red"

\* Only the line without a breakdown is a reason for red.
C3_Witness ==
    /\ returned.called
    /\ Len(items) >= 2
    /\ ~HasBreakdown(availabilities, items[2].item_id)
    /\ HasBreakdown(availabilities, items[1].item_id)
    /\ \A k \in 1..Len(items) :
           HasBreakdown(availabilities, items[k].item_id)
               => LineClass(items[k], availabilities) = "green"
    /\ returned.risk = "red"

\* C4: for a fixed breakdown and tracking mode the risk of a line never
\* drops when its requested quantity grows.
C4_RiskMonotone ==
    (returned.called /\ Len(items) = 1
        /\ HasBreakdown(availabilities, items[1].item_id))
    => \A r2 \in items[1].quantity..(MaxRequested + 1) :
           Rank(calculateQuoteRisk(<<[items[1] EXCEPT !.quantity = r2]>>,
                                   availabilities))
               >= Rank(returned.risk)

\* A bulk line of 9 that is yellow (buffer 2) with 10 available: at 10 the
\* percentage drops and the line is still yellow.
C4_Witness ==
    /\ returned.called
    /\ Len(items) = 1
    /\ HasBreakdown(availabilities, items[1].item_id)
    /\ ~IsSerializedOrFalse(items[1])
    /\ items[1].quantity = 9
    /\ availabilities[items[1].item_id].available = 10
    /\ returned.risk = "yellow"
    /\ calculateQuoteRisk(<<[items[1] EXCEPT !.quantity = 10]>>,
                          availabilities) = "yellow"

\* C5: the quote risk is the same for every permutation of the lines.
C5_OrderIndependent ==
    returned.called
    => \A p \in LinePermutations(Len(items)) :
           calculateQuoteRisk([k \in 1..Len(items) |-> items[p[k]]],
                              availabilities) = returned.risk

\* Three lines of three different levels.
C5_Witness ==
    /\ returned.called
    /\ Len(items) = 3
    /\ LineClass(items[1], availabilities) = "green"
    /\ LineClass(items[2], availabilities) = "yellow"
    /\ LineClass(items[3], availabilities) = "red"
    /\ returned.risk = "red"

----------------------------------------------------------------------------
(* Properties of the breakdown of serialized items (checked under          *)
(* SpecUnits).                                                             *)

\* The item lookup of the recorded invocation found the item.
ItemFound == ~returned.out.itemError /\ returned.item_id \in DOMAIN inventory_items

\* Number of units of an item whose row shows the given status.
UnitsWith(itemId, status) ==
    Cardinality({u \in DOMAIN inventory_units :
                    inventory_units[u] = [item_id |-> itemId, status |-> status]})

\* C6: for a serialized item that is found and whose unit list is fetched,
\* total is the number of its units, available, inTransit and outOfService
\* are the numbers of units with status "available", "out" and
\* "maintenance"; an item without units has all four counts 0.
C6_SerializedCounts ==
    (returned.called /\ ItemFound
        /\ inventory_items[returned.item_id].is_serialized
        /\ ~returned.out.unitsError)
    => LET id == returned.item_id
           bd == returned.result
       IN  /\ bd.total = Cardinality({u \in DOMAIN inventory_units :
                                         inventory_units[u].item_id = id})
           /\ bd.available = UnitsWith(id, "available")
           /\ bd.inTransit = UnitsWith(id, "out")
           /\ bd.outOfService = UnitsWith(id, "maintenance")
           /\ (\A u \in DOMAIN inventory_units : inventory_units[u].item_id # id)
                  => /\ bd.total = 0
                     /\ bd.available = 0
                     /\ bd.inTransit = 0
                     /\ bd.outOfService = 0

\* Two units of "s1" are checked out and one is available.
C6_Witness ==
    /\ returned.called
    /\ returned.item_id = "s1"
    /\ returned.out = NoFailure
    /\ returned.result.total = NumUnits
    /\ returned.result.inTransit = 2
    /\ returned.result.available = NumUnits - 2
    /\ returned.result.outOfService = 0

\* C7: in every reachable state the breakdown of every serialized item
\* satisfies available + inTransit + outOfService = total, whatever the
\* outcome of the fetches.
C7_SerializedPartition ==
    \A id \in DOMAIN inventory_items, out \in FetchOutcomes :
        inventory_items[id].is_serialized
        => LET bd == getItemAvailabilityBreakdown(id, out)
           IN  bd.available + bd.inTransit + bd.outOfService = bd.total

\* After status updates "s1" has units in all three statuses and its
\* breakdown has just been read.
C7_Witness ==
    /\ returned.called
    /\ returned.item_id = "s1"
    /\ returned.out = NoFailure
    /\ returned.result.available >= 1
    /\ returned.result.inTransit >= 1
    /\ returned.result.outOfService >= 1

\* C10: when the item lookup returns not-found or an error the reader
\* returns the all-zero breakdown, reserved included.
C10_NotFoundIsAllZero ==
    (returned.called /\ ~ItemFound)
    => returned.result = [available |-> 0, reserved |-> 0, inTransit |-> 0,
                          outOfService |-> 0, total |-> 0]

\* The id "zz" has no item row but is referenced by stored quote lines.
C10_Witness ==
    /\ returned.called
    /\ returned.item_id = "zz"
    /\ ~returned.out.itemError
    /\ \E k \in 1..Len(quote_items) :
           quote_items[k].item_id = "zz" /\ quote_items[k].quantity > 0
    /\ returned.result.reserved = 0
    /\ returned.result.total = 0

----------------------------------------------------------------------------
(* Properties of the breakdown of bulk items (checked under SpecStock).    *)

\* The stock rows of the item of the recorded invocation.
RowsOfReturned ==
    {r \in DOMAIN inventory_stock :
        inventory_stock[r] > 0 /\ r.item_id = returned.item_id}

BulkFound ==
    /\ returned.called
    /\ ItemFound
    /\ ~inventory_items[returned.item_id].is_serialized

C9_AvailableNeverNegative ==
    (BulkFound /\ ~returned.out.stockError
        /\ \E r \in RowsOfReturned : RowsOfReturned = {r} /\ inventory_stock[r] = 1)
    => LET bd == returned.result IN
       /\ bd.available = bd.total - bd.outOfService
       /\ bd.available >= 0
       /\ bd.outOfService = bd.total => bd.available = 0

----------------------------------------------------------------------------
(* Properties of the failure paths of the reader (checked under SpecStock). *)

\* A fetch of the recorded invocation failed: the item lookup, the unit
\* list or the stock record.
SomeFetchFailed ==
    \/ ~ItemFound
    \/ returned.out.unitsError
    \/ returned.out.stockError

\* The sum of the quantities of the stored quote lines of an item.
RECURSIVE ReservedUpTo(_, _)
ReservedUpTo(itemId, k) ==
    IF k = 0 THEN 0
    ELSE ReservedUpTo(itemId, k - 1)
             + (IF quote_items[k].item_id = itemId
                THEN quote_items[k].quantity ELSE 0)

----------------------------------------------------------------------------
(* Properties of the reserved quantity (checked under SpecQuotes).         *)

\* The quantity the lines of one quote reserve of an item.
RECURSIVE ReservedByQuote(_, _, _)
ReservedByQuote(quoteId, itemId, k) ==
    IF k = 0 THEN 0
    ELSE ReservedByQuote(quoteId, itemId, k - 1)
             + (IF quote_items[k].quote_id = quoteId
                     /\ quote_items[k].item_id = itemId
                THEN quote_items[k].quantity ELSE 0)

RECURSIVE SumOverQuotes(_, _)
SumOverQuotes(quoteIds, itemId) ==
    IF quoteIds = {} THEN 0
    ELSE LET q == CHOOSE x \in quoteIds : TRUE
         IN  ReservedByQuote(q, itemId, Len(quote_items))
                 + SumOverQuotes(quoteIds \ {q}, itemId)

\* reserved of a found item is the sum over the lines of every quote,
\* whatever the status and the dates of the quote.
C12_ReservedIsGlobalSum ==
    (returned.called /\ ItemFound /\ ~returned.out.error)
    => returned.result.reserved =
           SumOverQuotes(DOMAIN QuotesSample, returned.item_id)

\* A quote-line mutation changes the reserved sum of its item by the change
\* of the quantity and leaves the sum of every other item alone.
C12_MutationChangesReservedByDelta ==
    \A i \in ItemIds :
        (~returned'.called /\ "delta" \in DOMAIN returned')
        => getReservedQuantity(i, FALSE)' =
               getReservedQuantity(i, FALSE)
                   + (IF i = returned'.item_id THEN returned'.delta ELSE 0)

\* C12: for a found item reserved is the sum of quantity over every quote
\* line of the item across all quotes, independent of status and dates, and
\* adding, updating or deleting a line changes it by the change in quantity.
C12_Reserved ==
    /\ []C12_ReservedIsGlobalSum
    /\ [][C12_MutationChangesReservedByDelta]_vars

\* "s1" is reserved by a draft quote and by an accepted quote, and the
\* breakdown counts both.
C12_Witness ==
    /\ returned.called
    /\ returned.item_id = "s1"
    /\ returned.out = NoFailure
    /\ \E a, b \in 1..Len(quote_items) :
           /\ quote_items[a].item_id = "s1"
           /\ quote_items[b].item_id = "s1"
           /\ QuotesSample[quote_items[a].quote_id].status = "draft"
           /\ QuotesSample[quote_items[b].quote_id].status = "accepted"
           /\ returned.result.reserved =
                  quote_items[a].quantity + quote_items[b].quantity

----------------------------------------------------------------------------
(* Properties of the buffer quantity (checked under SpecBuffer).           *)

\* C13: for a serialized item the buffer is 1 when total < 5 and 0 when
\* total >= 5, whatever the requested quantity is.
C13_SerializedBuffer ==
    (returned.called /\ returned.isSerialized)
    => /\ returned.total < 5 => returned.buffer = 1
       /\ returned.total >= 5 => returned.buffer = 0

\* A serialized item with 5 units gets no buffer for a request of 7.
C13_Witness ==
    /\ returned.called
    /\ returned.isSerialized
    /\ returned.total = 5
    /\ returned.requestedQuantity = 7
    /\ returned.buffer = 0

\* n is the ceiling of r / d: the least integer with n * d >= r.
IsCeilingOf(n, r, d) == n * d >= r /\ (n - 1) * d < r

\* C14: for a bulk item the buffer is ceil(r * 0.20) when r < 10 and
\* ceil(r * 0.10) when r >= 10, and does not depend on total.
C14_BulkBuffer ==
    (returned.called /\ ~returned.isSerialized)
    => LET r == returned.requestedQuantity IN
       /\ r < 10 => IsCeilingOf(returned.buffer, r, 5)
       /\ r >= 10 => IsCeilingOf(returned.buffer, r, 10)
       /\ r = 8 => returned.buffer = 2
       /\ r = 10 => returned.buffer = 1
       /\ \A t \in -1..(MaxTotal + 1) :
              calculateBufferQuantity(FALSE, t, r) = returned.buffer

\* A bulk request of 8 gets a buffer of 2.
C14_Witness ==
    /\ returned.called
    /\ ~returned.isSerialized
    /\ returned.requestedQuantity = 8
    /\ returned.buffer = 2

----------------------------------------------------------------------------
(* A line that asks for exactly what is available (checked under SpecRisk). *)

\* The single line of the quote is serialized with fewer than 5 units, or
\* bulk.
SingleBufferedLine ==
    /\ returned.called
    /\ Len(items) = 1
    /\ HasBreakdown(availabilities, items[1].item_id)
    /\ \/ ~IsSerializedOrFalse(items[1])
       \/ availabilities[items[1].item_id].total < 5

\* C16: a line with r = available >= 1 is yellow when the item is bulk or
\* serialized with total < 5, and red for such an item when
\* r = available + 1.
C16_ExactRequestIsYellow ==
    SingleBufferedLine
    => LET r == items[1].quantity
           available == availabilities[items[1].item_id].available
       IN  /\ (r = available /\ r >= 1) => returned.risk = "yellow"
           /\ r = available + 1 => returned.risk = "red"

\* A serialized item with 3 units, all available, asked for 3 times.
C16_Witness ==
    /\ SingleBufferedLine
    /\ IsSerializedOrFalse(items[1])
    /\ availabilities[items[1].item_id].total = 3
    /\ availabilities[items[1].item_id].available = 3
    /\ items[1].quantity = 3
    /\ returned.risk = "yellow"

----------------------------------------------------------------------------
(* Isolation of a failed fetch (checked under SpecPage).                   *)

\* The fetch of the k-th line failed: it threw or a backend call erred.
FetchFailedAt(k) == returned.outs[k].thrown \/ returned.outs[k].out # NoFailure

\* The items of the quote none of whose fetches failed.
UnaffectedItems ==
    {id \in PageItemIds :
        /\ \E k \in 1..Len(items) : items[k].item_id = id
        /\ \A k \in 1..Len(items) : items[k].item_id = id => ~FetchFailedAt(k)}

\* C17: when the fetch for one item of the quote fails, every other item of
\* the quote has, after fetchAvailabilities, the breakdown it has on its
\* own, wherever the failing item stands in the list.
C17_FailureIsIsolated ==
    returned.called
    => \A id \in UnaffectedItems :
          /\ HasBreakdown(availabilities, id)
          /\ availabilities[id] = getItemAvailabilityBreakdown(id, NoFailure)

\* The first line's fetch threw and a later line of another item has its
\* breakdown with every unit of "s1" available.
C17_Witness ==
    /\ returned.called
    /\ Len(items) >= 2
    /\ returned.outs[1].thrown
    /\ items[1].item_id = "b2"
    /\ "s1" \in UnaffectedItems
    /\ HasBreakdown(availabilities, "s1")
    /\ availabilities["s1"].available = NumUnits

----------------------------------------------------------------------------
(* Every invocation returns (checked under SpecStock).                     *)

BreakdownFields ==
    {"available", "reserved", "inTransit", "outOfService", "total"}

\* C18: every invocation of getItemAvailabilityBreakdown ends with a
\* breakdown of five integers whatever the outcome of each fetch is, and
\* queries no table more than once.
C18_AlwaysReturnsBreakdown ==
    returned.called
    => /\ DOMAIN returned.result = BreakdownFields
       /\ \A f \in BreakdownFields : returned.result[f] \in Int
       /\ Len(returned.fetches) \in 1..3
       /\ \A i, j \in DOMAIN returned.fetches :
              returned.fetches[i] = returned.fetches[j] => i = j

\* Both the reserved sum and the stock fetch of a stocked bulk item fail and
\* the invocation still returns, all zero.
C18_Witness ==
    /\ returned.called
    /\ returned.item_id = "b1"
    /\ returned.out.error
    /\ returned.out.stockError
    /\ StockCountOf("b1") = 1
    /\ Len(returned.fetches) = 3
    /\ returned.result = ZeroBreakdown

----------------------------------------------------------------------------
(* The stored stock records (checked under SpecStock).                     *)

\* C19: every stored stock record has
\* 0 <= out_of_service_quantity <= total_quantity.
C19_StoredStockInRange ==
    \A r \in BagToSet(inventory_stock) :
        /\ 0 <= OrZero(r.out_of_service_quantity)
        /\ OrZero(r.out_of_service_quantity) <= r.total_quantity


\* C20: no item has more than one stock record.
C20_OneStockRecordPerItem == \A i \in ItemIds : StockCountOf(i) <= 1

----------------------------------------------------------------------------
(* The status column of inventory_units (checked under SpecUnits).         *)

C21_StatusIsValid ==
    \A u \in DOMAIN inventory_units : inventory_units[u].status \in ValidStatuses

\* A submission with an empty unit id, an empty status or a status outside
\* the list.
RejectedUnitForm(unitId, newStatus) ==
    unitId = 0 \/ newStatus = "" \/ newStatus \notin ValidStatuses

C21_RejectedChangesNothing ==
    \A u \in UnitIdInputs, s \in StatusInputs :
        (RejectedUnitForm(u, s) /\ updateUnitStatus(u, s))
        => inventory_units' = inventory_units

\* C21: every unit's status is one of available, out and maintenance in
\* every reachable state, and updateUnitStatus with another status, an
\* empty unit id or an empty status changes nothing.
C21_UnitStatus ==
    /\ []C21_StatusIsValid
    /\ [][C21_RejectedChangesNothing]_vars

\* Status updates have put the three units into the three statuses.
C21_Witness ==
    /\ ~returned.called
    /\ inventory_units[1].status = "maintenance"
    /\ inventory_units[2].status = "out"
    /\ inventory_units[3].status = "available"

----------------------------------------------------------------------------
(* The item table (checked under SpecItems).                               *)

C22_FlagKept ==
    \A i \in DOMAIN inventory_items :
        /\ i \in DOMAIN inventory_items'
        /\ inventory_items'[i].is_serialized = inventory_items[i].is_serialized

\* C22: no operation changes the is_serialized flag of an item that
\* exists.
C22_FlagImmutable == [][C22_FlagKept]_vars

\* An item has been created, "s1" has a new price and has been moved, and
\* the stock, unit and log operations have written their tables.
C22_Witness ==
    /\ CreatedItems(inventory_items) # {}
    /\ inventory_items["s1"].price = 2
    /\ inventory_items["s1"].display_order # 1
    /\ inventory_items["s1"].is_serialized
    /\ StockCountOf("b1") >= 1
    /\ inventory_units[1].status = "maintenance"
    /\ inventory_maintenance_logs # {}

----------------------------------------------------------------------------
(* The price snapshot of a quote line (checked under SpecPrices).          *)

C23_SnapshotKept ==
    \A k \in DOMAIN quote_items, j \in DOMAIN quote_items' :
        quote_items'[j].id = quote_items[k].id
        => quote_items'[j].unit_price_snapshot
               = quote_items[k].unit_price_snapshot

\* The sum of quantity * snapshot over the stored lines of a quote.
RECURSIVE SnapshotSum(_, _)
SnapshotSum(quoteId, k) ==
    IF k = 0 THEN 0
    ELSE SnapshotSum(quoteId, k - 1)
             + (IF quote_items[k].quote_id = quoteId
                THEN quote_items[k].quantity
                         * quote_items[k].unit_price_snapshot
                ELSE 0)

C23_TotalsFromSnapshot ==
    returned.called
    => LET q == returned.quote_id
           days == QuotesSample[q].end_date - QuotesSample[q].start_date
           its == SelectSeq(quote_items, LAMBDA qi : qi.quote_id = q)
       IN  /\ returned.subtotal = SnapshotSum(q, Len(quote_items)) * days
           /\ Len(returned.lineTotals) = Len(its)
           /\ \A k \in 1..Len(its) :
                  returned.lineTotals[k] =
                      its[k].quantity * its[k].unit_price_snapshot * days

\* C23: the price snapshot of an existing quote line is changed neither by
\* updateItem nor by a quantity update, and line totals and subtotal are
\* computed from the snapshot, not from the item's current price.
C23_PriceSnapshot ==
    /\ []C23_TotalsFromSnapshot
    /\ [][C23_SnapshotKept]_vars

\* A line of "s1" added at price 1 is shown with total 2 * 1 * 4 after the
\* price of "s1" went up to 2.
C23_Witness ==
    /\ returned.called
    /\ returned.quote_id = "q2"
    /\ inventory_items["s1"].price = 2
    /\ Len(quote_items) = 1
    /\ quote_items[1].item_id = "s1"
    /\ quote_items[1].quantity = 2
    /\ quote_items[1].unit_price_snapshot = 1
    /\ returned.subtotal = 8

----------------------------------------------------------------------------
(* Independence of the breakdowns of distinct items (checked under         *)
(* SpecStore).                                                             *)

\* Everything the store holds about one item: its row, its units, its
\* stock rows and its quote lines.
OwnData(itemId) ==
    << IF itemId \in DOMAIN inventory_items
       THEN <<inventory_items[itemId].is_serialized>> ELSE <<>>,
       [u \in UnitsOf(itemId) |-> inventory_units[u].status],
       [r \in StockRowsOf(itemId) |-> inventory_stock[r]],
       QuoteItemsOf(itemId) >>

C24_SameDataSameBreakdown ==
    \A a \in ItemIds :
        OwnData(a)' = OwnData(a)
        => \A out \in FetchOutcomes :
               getItemAvailabilityBreakdown(a, out)'
                   = getItemAvailabilityBreakdown(a, out)

C24_ReaderWritesNothing == returned'.called => UNCHANGED dbVars

\* C24: a step that leaves an item's own data alone leaves its breakdown
\* alone whatever it does to the data of other items, and the reader
\* changes no stored data.
C24_Independent ==
    [][C24_SameDataSameBreakdown /\ C24_ReaderWritesNothing]_vars

\* "s1" is read after a unit of "s2" went out, "b1" got a stock record and
\* "s2" a quote line: its breakdown counts its own units only.
C24_Witness ==
    /\ returned.called
    /\ returned.item_id = "s1"
    /\ \E u \in UnitsOf("s2") : inventory_units[u].status = "out"
    /\ StockCountOf("b1") = 1
    /\ QuoteItemsOf("s2") # <<>>
    /\ returned.result.available = Cardinality(UnitsOf("s1"))
    /\ returned.result.reserved = 0

----------------------------------------------------------------------------
(* Overlapping runs of the availability effect (checked under SpecRuns).   *)

\* C25: once no run is in flight the map holds a breakdown for every item
\* of the current quote.items; a run started for an older list that ends
\* later does not replace the map of the latest run.
C25_LatestRunWins ==
    runs = <<>>
    => \A k \in 1..Len(items) : items[k].item_id \in DOMAIN availabilities

----------------------------------------------------------------------------
(* The order of the items of a group (checked under SpecItems).            *)

\* The items of the group next to itemId: the largest display_order below
\* it for "up", the smallest display_order above it for "down".
AdjacentItems(tbl, itemId, direction) ==
    LET current == tbl[itemId]
        rows == IF direction = "up"
                THEN {i \in GroupItems(tbl, current.group_id) :
                         tbl[i].display_order < current.display_order}
                ELSE {i \in GroupItems(tbl, current.group_id) :
                         tbl[i].display_order > current.display_order}
    IN  IF direction = "up"
        THEN {i \in rows : \A j \in rows :
                 tbl[j].display_order <= tbl[i].display_order}
        ELSE {i \in rows : \A j \in rows :
                 tbl[i].display_order <= tbl[j].display_order}

ExchangedWithAdjacent(itemId, direction) ==
    IF AdjacentItems(inventory_items, itemId, direction) = {}
    THEN inventory_items' = inventory_items
    ELSE \E n \in AdjacentItems(inventory_items, itemId, direction) :
            inventory_items' =
                [inventory_items EXCEPT
                    ![itemId].display_order = inventory_items[n].display_order,
                    ![n].display_order = inventory_items[itemId].display_order]

\* C26: moveItem exchanges the display_order of the item with that of the
\* item immediately before it (up) or after it (down) in its group; every
\* other item keeps its display_order, and the first item moved up or the
\* last item moved down changes nothing.
C26_MoveExchangesAdjacent ==
    [][\A i \in DOMAIN inventory_items : \A d \in {"up", "down"} :
          moveItem(i, d) => ExchangedWithAdjacent(i, d)]_vars

----------------------------------------------------------------------------
(* Interleaved item actions (checked under SpecItemsRace).                 *)

\* C27: within a group the display_order values of the items are pairwise
\* distinct in every reachable state.
C27_DisplayOrderDistinct ==
    \A i \in DOMAIN inventory_items : \A j \in DOMAIN inventory_items :
        (i # j /\ inventory_items[i].group_id = inventory_items[j].group_id)
        => inventory_items[i].display_order # inventory_items[j].display_order

----------------------------------------------------------------------------
(* Deleting an item in a card (checked under SpecCard).                    *)

Count(q, x) == Cardinality({k \in 1..Len(q) : q[k] = x})

\* The local list holds the items the handler saw, each exactly once, and
\* the modal shows the error.
RevertedAsBefore ==
    /\ SeqRange(card'.items) = SeqRange(card.deleting.group_items)
    /\ \A id \in SeqRange(card'.items) : Count(card'.items, id) = 1
    /\ card'.showDeleteItemModal
    /\ card'.deleteError # ""

\* C28: when deleteItem returns an error or throws for a saved item, the
\* optimistic removal is reverted: the local item list again contains the
\* item exactly once and every other item exactly once, and the delete
\* modal is shown again with the error.
C28_DeleteReverted ==
    [][\A o \in {"error", "throw"} :
          handleDeleteItemSettle(o) => RevertedAsBefore]_vars

----------------------------------------------------------------------------
(* The risk of the quote and the flags of its lines (checked under         *)
(* SpecRisk).                                                              *)

LinesFlagged ==
    {k \in 1..Len(items) : isOverAvailable(items[k], availabilities)}

QuantitiesPositive ==
    /\ Len(items) >= 1
    /\ \A k \in 1..Len(items) : items[k].quantity >= 1

\* C29: for a quote with at least one line and all quantities >= 1, the
\* risk shown is red exactly when at least one line is flagged "Over
\* available"; while no breakdown has been loaded the risk is red.
C29_RedIffOverAvailable ==
    (riskLevel # "none" /\ QuantitiesPositive)
    => /\ riskLevel = "red" <=> LinesFlagged # {}
       /\ availabilities = NoAvailabilities => riskLevel = "red"

\* C29 witnesses: a rendered quote without breakdowns, shown red with its
\* line flagged.
C29_Witness ==
    /\ QuantitiesPositive
    /\ availabilities = NoAvailabilities
    /\ riskLevel = "red"
    /\ LinesFlagged # {}

----------------------------------------------------------------------------
(* getItemAvailability against getItemAvailabilityBreakdown (checked       *)
(* under SpecAvail).                                                       *)

FromGetItemAvailability == returned.called /\ "reader" \in DOMAIN returned

\* C30: getItemAvailability returns the available and total that
\* getItemAvailabilityBreakdown returns for the item under the same fetch
\* outcomes, whatever the outcome of the reserved-quantity lookup.
C30_SameAvailableAndTotal ==
    FromGetItemAvailability
    => \A e \in BOOLEAN :
          LET out == [returned.out EXCEPT !.error = e]
              breakdown == getItemAvailabilityBreakdown(returned.item_id, out)
          IN  PerformedFetches(returned.item_id, out)
              => /\ returned.result.available = breakdown.available
                 /\ returned.result.total = breakdown.total

\* C30 witnesses: a bulk item with units out of service and reserved
\* units, read by getItemAvailability.
C30_Witness ==
    /\ FromGetItemAvailability
    /\ returned.out = NoFailure
    /\ returned.result.total > returned.result.available
    /\ returned.result.available > 0
    /\ getItemAvailabilityBreakdown(returned.item_id, NoFailure).reserved > 0

====
